---------------------------- MODULE Spec2Model ----------------------------
(***************************************************************************)
(* Model of the radio broadcast engine: the TrackQueue (queue.ts), the     *)
(* StreamService (player.ts) and the HTTP verbs of index.ts that drive     *)
(* them.  Node runs every handler to completion, so one action is one      *)
(* handler, timer callback or continuation after an await.  The fetcher    *)
(* and the ffmpeg encoder are the environment: their completions and       *)
(* events (start, data, end, error) arrive in any order the code allows.   *)
(* Timers are pending callbacks that fire in any order; wall-clock time    *)
(* advances with the 50 ms silence interval.                               *)
(***************************************************************************)
EXTENDS Integers, Sequences, FiniteSets

\* ------------------------------------------------------------- bounds
MaxTracks == 3        \* tracks ever enqueued
QueueTracks == 5      \* tracks ever enqueued when the queue is exercised alone
MaxChunks == 2        \* data chunks one encoder emits
MaxListeners == 2     \* listener connections
MaxTicks == 2         \* 50 ms interval ticks of the clock
MaxSkipTimers == 2    \* pending 150 ms skip timers
MaxLog == 2           \* items remembered per listener sink
FewTracks == 2        \* tracks enqueued under SpecPause and SpecFan
FewChunks == 1        \* data chunks one encoder emits under SpecEngine, SpecPause, SpecFan
PlainListeners == 1   \* listener connections under SpecPlain
MaxParams == 2        \* query parameters of a url

\* -------------------------------------------------- program constants
TickMs == 50
FlushFrames == 100

Ids == 1..MaxTracks
Listeners == 1..MaxListeners

VARIABLES
  queue,                \* TrackQueue.queue
  uuids,                \* number of ids randomUUID has produced
  issued,               \* ids returned by enqueue, in call order
  playing, starting, paused, skipping,
  pausedAt, totalPausedDuration,
  stopCurrent,          \* encoder the stopper closure kills, 0 = null
  currentFfmpegPid,     \* 0 = null
  currentTrack, lastPlayedTrack,
  taps,                 \* attached listener sinks
  log,                  \* per listener: the last MaxLog items written to it
  wrote,                \* per listener: items the last step wrote to it
  phase,                \* per track: where its playTrack call / encoder is
  started,              \* per track: encoder reported its 'start' event
  sent,                 \* per track: data chunks emitted (hasStarted = sent > 0)
  suspended,            \* per track: encoder process is SIGSTOPped
  timeouts,             \* tracks whose 30 s safety timer is pending
  awaiting,             \* track whose playNext an ensurePlaying call awaits, 0 = none
  skipTimers,           \* pending 150 ms timers of skipCurrent
  nextTimers,           \* pending 100 ms playNext timers
  retryTimers,          \* pending 1 s playNext timers
  now,                  \* Date.now()
  pausedMs,             \* wall-clock ms with paused true since the current track's first chunk
  url,                  \* the url last given to normalizeYoutubeUrl
  normalized,           \* what normalizeYoutubeUrl returned for it
  payloads,             \* per track: the source and thumbnail it was enqueued with
  currentYoutubeThumbnail, currentSoundcloudThumbnail   \* 0 = null

vars == <<queue, uuids, issued, playing, starting, paused, skipping, pausedAt,
          totalPausedDuration, stopCurrent, currentFfmpegPid, currentTrack,
          lastPlayedTrack, taps, log, wrote, phase, started, sent, suspended,
          timeouts, awaiting, skipTimers, nextTimers, retryTimers, now, pausedMs,
          url, normalized, payloads, currentYoutubeThumbnail,
          currentSoundcloudThumbnail>>

\* ------------------------------------------------------------- values
NoTrack == [id |-> 0, startedAt |-> 0]
Track(i) == [id |-> i, startedAt |-> 0]

SILENCE_FRAME == [enc |-> 0, seq |-> 0, frames |-> 1]
SILENCE_FLUSH == [enc |-> 0, seq |-> 0, frames |-> FlushFrames]
Chunk(p, k) == [enc |-> p, seq |-> k, frames |-> 0]

Max(a, b) == IF a > b THEN a ELSE b
Min(a, b) == IF a < b THEN a ELSE b

\* --------------------------------------------------------- TrackQueue
randomUUID == uuids + 1

\* mutation of enqueue: the id is the track's position in the queue
enqueueReusesId(q, payload) == Append(q, [payload EXCEPT !.id = Len(q) + 1])
\* { id: randomUUID(), ...payload }: an id carried by the payload would win;
\* id 0 stands for a payload without one
enqueue(q, payload) ==
  Append(q, IF payload.id # 0 THEN payload ELSE [payload EXCEPT !.id = randomUUID])

\* mutation of dequeue: the tail is popped instead of the head
dequeuePops(q) == SubSeq(q, 1, Len(q) - 1)
\* mutation of dequeue: the head is returned but not shifted out
dequeueKeepsHead(q) == q
dequeue(q) == Tail(q)

peek(q) == IF q = <<>> THEN NoTrack ELSE Head(q)

snapshot(q) == q

findIndex(q, trackId) ==
  IF \E i \in 1..Len(q) : q[i].id = trackId
  THEN (CHOOSE i \in 1..Len(q) : q[i].id = trackId /\ \A j \in 1..(i - 1) : q[j].id # trackId) - 1
  ELSE -1

\* Array.prototype.splice(index, 1) and splice(index, 0, x), 0-based
spliceOut(q, index) == SubSeq(q, 1, index) \o SubSeq(q, index + 2, Len(q))
spliceIn(q, index, x) == SubSeq(q, 1, index) \o <<x>> \o SubSeq(q, index + 1, Len(q))

\* the boolean that remove and move return
removeReturns(q, trackId) == findIndex(q, trackId) # -1
moveReturns(q, trackId) == findIndex(q, trackId) # -1

\* mutation of remove: splice is reached with the index -1 of an absent id
removeSplicesAbsent(q, trackId) ==
  IF findIndex(q, trackId) = -1 THEN SubSeq(q, 1, Len(q) - 1)
  ELSE spliceOut(q, findIndex(q, trackId))

remove(q, trackId) ==
  IF findIndex(q, trackId) = -1 THEN q ELSE spliceOut(q, findIndex(q, trackId))

\* mutation of move: the index is clamped to the length after the removal
moveClampsShort(q, trackId, newIndex) ==
  IF findIndex(q, trackId) = -1 THEN q
  ELSE LET currentIndex == findIndex(q, trackId)
           clampedIndex == Max(0, Min(newIndex, Len(q) - 2))
       IN spliceIn(spliceOut(q, currentIndex), clampedIndex, q[currentIndex + 1])

move(q, trackId, newIndex) ==
  IF findIndex(q, trackId) = -1 THEN q
  ELSE LET currentIndex == findIndex(q, trackId)
           clampedIndex == Max(0, Min(newIndex, Len(q) - 1))
       IN spliceIn(spliceOut(q, currentIndex), clampedIndex, q[currentIndex + 1])

\* ------------------------------------------------------ fan-out bus
Remember(l, items) ==
  LET all == log[l] \o items
  IN IF Len(all) <= MaxLog THEN all ELSE SubSeq(all, Len(all) - MaxLog + 1, Len(all))

\* tap.write(item) for every tap of the set `to`
WriteAll(to, items) ==
  /\ wrote' = [l \in Listeners |-> IF l \in to THEN items ELSE <<>>]
  /\ log' = [l \in Listeners |-> IF l \in to THEN Remember(l, items) ELSE log[l]]

NoWrite == WriteAll({}, <<>>)

\* mutation of broadcastChunk: the chunk is not replaced while paused
broadcastUnpaused(chunk) == WriteAll(taps, <<chunk>>)
\* mutation of broadcastChunk: the loop stops after the first tap
broadcastOnlyFirst(chunk) ==
  WriteAll({l \in taps : \A m \in taps : l <= m},
           <<IF paused THEN SILENCE_FRAME ELSE chunk>>)
broadcastChunk(chunk) ==
  WriteAll(taps, <<IF paused THEN SILENCE_FRAME ELSE chunk>>)

sendSilence == broadcastChunk(SILENCE_FRAME)

\* mutation of flushWithSilence: a single frame instead of the flush block
flushOneFrame == WriteAll(taps, <<SILENCE_FRAME>>)
flushWithSilence == WriteAll(taps, <<SILENCE_FLUSH>>)


\* ------------------------------------------------------- State Snapshot
\* mutation of currentPauseDuration: the pause in progress is added
currentPauseDurationLive == IF paused /\ pausedAt # 0 THEN now - pausedAt ELSE 0
currentPauseDuration == IF paused THEN 0 ELSE 0

getState ==
  LET track == IF currentTrack # NoTrack THEN currentTrack ELSE lastPlayedTrack
      adjustedTrack ==
        IF track # NoTrack /\ track.startedAt # 0
        THEN [track EXCEPT !.startedAt =
                track.startedAt + totalPausedDuration + currentPauseDuration]
        ELSE track
  IN [current |-> adjustedTrack, queue |-> snapshot(queue),
      listeners |-> Cardinality(taps), paused |-> paused]

\* ------------------------------------------------------ URL normalization
\* A url is what new URL(url) makes of it: whether it parses, whether its text
\* is already the serialization parsed.toString() gives, its host name as the
\* sequence of its labels, the names of its query parameters in order, and
\* its fragment as the text up to and including the first "=" followed by
\* the rest.
NoUrl == [parses |-> FALSE, serialized |-> FALSE, host |-> <<>>, query |-> <<>>,
          hash |-> <<>>]

Hosts ==
  {<<"youtube", "com">>, <<"youtu", "be">>, <<"music", "youtube", "com">>,
   <<"www", "youtube", "com">>, <<"youtube", "com", "example", "org">>,
   <<"soundcloud", "com">>}

ParamNames == {"t", "start", "time_continue", "timestamp", "v"}

Queries == UNION {[1..n -> ParamNames] : n \in 0..MaxParams}

Hashes == {<<>>, <<"t=", "30">>, <<"time_continue=", "30">>, <<"top">>}

Urls ==
  {NoUrl} \cup [parses : {TRUE}, serialized : BOOLEAN, host : Hosts,
                query : Queries, hash : Hashes]

\* String.prototype.includes on host names, label by label
includes(host, part) ==
  \E i \in 0..(Len(host) - Len(part)) : SubSeq(host, i + 1, i + Len(part)) = part

\* String.prototype.startsWith on a fragment
startsWith(hash, prefix) == hash # <<>> /\ hash[1] = prefix

\* URLSearchParams.delete
deleteParam(query, name) == SelectSeq(query, LAMBDA p : p # name)

normalizeYoutubeUrl(u) ==
  IF ~u.parses THEN u
  ELSE LET isYoutube ==
             \/ includes(u.host, <<"youtube", "com">>)
             \/ includes(u.host, <<"youtu", "be">>)
             \/ includes(u.host, <<"music", "youtube", "com">>)
       IN IF ~isYoutube THEN u
          ELSE [parses |-> TRUE,
                serialized |-> TRUE,
                host |-> u.host,
                query |-> deleteParam(deleteParam(deleteParam(deleteParam(
                            u.query, "t"), "start"), "time_continue"), "timestamp"),
                hash |-> IF startsWith(u.hash, "t=") \/ startsWith(u.hash, "time_continue=")
                         THEN <<>> ELSE u.hash]

getCurrentThumbnail(source) ==
  IF source = "youtube" THEN currentYoutubeThumbnail ELSE currentSoundcloudThumbnail

\* mutation of GetStatus: the adjusted copy is stored as the current track
GetStatusStores ==
  /\ currentTrack' = (IF currentTrack # NoTrack THEN getState.current ELSE currentTrack)
  /\ wrote' = [l \in Listeners |-> <<>>]
  /\ UNCHANGED <<queue, uuids, issued, playing, starting, paused, skipping,
                 pausedAt, totalPausedDuration, stopCurrent, currentFfmpegPid,
                 lastPlayedTrack, taps, log, phase, started, sent,
                 suspended, timeouts, awaiting, skipTimers, nextTimers,
                 retryTimers, now, pausedMs, url, normalized, payloads,
                 currentYoutubeThumbnail, currentSoundcloudThumbnail>>

\* GET /api/status: getState is computed and sent as the response
GetStatus ==
  /\ getState.listeners = Cardinality(taps)
  /\ wrote' = [l \in Listeners |-> <<>>]
  /\ UNCHANGED <<queue, uuids, issued, playing, starting, paused, skipping,
                 pausedAt, totalPausedDuration, stopCurrent, currentFfmpegPid,
                 currentTrack, lastPlayedTrack, taps, log, phase, started, sent,
                 suspended, timeouts, awaiting, skipTimers, nextTimers,
                 retryTimers, now, pausedMs, url, normalized, payloads,
                 currentYoutubeThumbnail, currentSoundcloudThumbnail>>

\* ---------------------------------------------------------------- Init
Init ==
  /\ queue = <<>> /\ uuids = 0 /\ issued = <<>>
  /\ playing = FALSE /\ starting = FALSE /\ paused = FALSE /\ skipping = FALSE
  /\ pausedAt = 0 /\ totalPausedDuration = 0
  /\ stopCurrent = 0 /\ currentFfmpegPid = 0
  /\ currentTrack = NoTrack /\ lastPlayedTrack = NoTrack
  /\ taps = {}
  /\ log = [l \in Listeners |-> <<>>]
  /\ wrote = [l \in Listeners |-> <<>>]
  /\ phase = [p \in Ids |-> "none"]
  /\ started = [p \in Ids |-> FALSE]
  /\ sent = [p \in Ids |-> 0]
  /\ suspended = [p \in Ids |-> FALSE]
  /\ timeouts = {}
  /\ awaiting = 0
  /\ skipTimers = 0 /\ nextTimers = 0 /\ retryTimers = 0
  /\ now = TickMs
  /\ pausedMs = 0
  /\ url = NoUrl /\ normalized = NoUrl
  /\ payloads = [p \in Ids |-> [source |-> "none", thumbnail |-> 0]]
  /\ currentYoutubeThumbnail = 0 /\ currentSoundcloudThumbnail = 0

\* ------------------------------------------------------------ playNext
\* mutation of playNext: an empty queue leaves the track fields alone
playNextKeepsTrack(q, byEnsure) ==
  IF playing \/ q = <<>>
  THEN /\ queue' = q
       /\ UNCHANGED <<phase, currentTrack, lastPlayedTrack, playing, starting, awaiting,
                    currentYoutubeThumbnail, currentSoundcloudThumbnail>>
  ELSE /\ queue' = dequeue(q)
       /\ phase' = [phase EXCEPT ![Head(q).id] = "fetching"]
       /\ starting' = (byEnsure \/ starting)
       /\ awaiting' = (IF byEnsure THEN Head(q).id ELSE awaiting)
       /\ UNCHANGED <<currentTrack, lastPlayedTrack, playing,
                    currentYoutubeThumbnail, currentSoundcloudThumbnail>>

\* playNext up to its first await, on the queue value q.  byEnsure: the call
\* is the one ensurePlaying awaits.
playNext(q, byEnsure) ==
  IF playing
  THEN /\ queue' = q
       /\ UNCHANGED <<phase, currentTrack, lastPlayedTrack, playing, starting, awaiting,
                    currentYoutubeThumbnail, currentSoundcloudThumbnail>>
  ELSE IF q = <<>>
  THEN /\ queue' = q
       /\ currentTrack' = NoTrack
       /\ lastPlayedTrack' = NoTrack
       /\ currentYoutubeThumbnail' = 0
       /\ currentSoundcloudThumbnail' = 0
       /\ playing' = FALSE
       /\ UNCHANGED <<phase, starting, awaiting>>
  ELSE /\ queue' = dequeue(q)
       /\ phase' = [phase EXCEPT ![Head(q).id] = "fetching"]
       /\ starting' = (byEnsure \/ starting)
       /\ awaiting' = (IF byEnsure THEN Head(q).id ELSE awaiting)
       /\ UNCHANGED <<currentTrack, lastPlayedTrack, playing,
                    currentYoutubeThumbnail, currentSoundcloudThumbnail>>

\* mutation of ensurePlaying: the playing / starting guard is missing
ensurePlayingUnguarded(q) == playNext(q, TRUE)

\* ensurePlaying up to its first await; a playNext that returns without
\* awaiting lets the finally clause reset starting in the same turn.
ensurePlaying(q) ==
  IF playing \/ starting
  THEN /\ queue' = q
       /\ UNCHANGED <<phase, currentTrack, lastPlayedTrack, playing, starting, awaiting,
                    currentYoutubeThumbnail, currentSoundcloudThumbnail>>
  ELSE playNext(q, TRUE)

\* POST /api/queue, the 201 path for a track of the given source, with or
\* without a thumbnail: enqueue, then ensurePlaying
PostTrack(source, thumbnail) ==
  /\ uuids < MaxTracks
  /\ LET q1 == enqueue(queue, Track(0))
     IN /\ issued' = Append(issued, q1[Len(q1)].id)
        /\ payloads' = [payloads EXCEPT ![q1[Len(q1)].id] =
                          [source |-> source,
                           thumbnail |-> IF thumbnail THEN q1[Len(q1)].id ELSE 0]]
        /\ ensurePlaying(q1)
  /\ uuids' = uuids + 1
  /\ NoWrite
  /\ UNCHANGED <<paused, skipping, pausedAt, totalPausedDuration, stopCurrent,
                 currentFfmpegPid, taps, started, sent, suspended, timeouts,
                 skipTimers, nextTimers, retryTimers, now,
                 url, normalized, pausedMs>>

\* a YouTube video whose metadata carries no thumbnail is posted
PostQueue == PostTrack("youtube", FALSE)

\* POST /api/queue requests: the body's url as play.validate classifies it
\* ("none": no url), whether config.soundcloudClientId is set, whether the
\* metadata lookup succeeds, and whether SoundCloud's answer is a single track
Requests ==
  [url : {"none", "yt_video", "so_track", "other"},
   soundcloud : BOOLEAN, lookup : BOOLEAN, single : BOOLEAN]

\* the status of the response to POST /api/queue; a lookup that throws goes to
\* the error middleware, which answers 500
postStatus(req) ==
  IF req.url = "none" THEN 400
  ELSE IF req.url = "yt_video" THEN (IF req.lookup THEN 201 ELSE 500)
  ELSE IF req.url = "so_track"
  THEN IF ~req.soundcloud THEN 503
       ELSE IF ~req.lookup THEN 500
       ELSE IF ~req.single THEN 422
       ELSE 201
  ELSE 422

\* a handler that returns before it has touched the queue or the stream
Rejected ==
  /\ NoWrite
  /\ UNCHANGED <<queue, uuids, issued, playing, starting, paused, skipping,
                 pausedAt, totalPausedDuration, stopCurrent, currentFfmpegPid,
                 currentTrack, lastPlayedTrack, taps, phase, started, sent,
                 suspended, timeouts, awaiting, skipTimers, nextTimers,
                 retryTimers, now, url, normalized,
                 payloads, currentYoutubeThumbnail,
                 currentSoundcloudThumbnail, pausedMs>>

\* mutation of PostRequest: the track is enqueued before its metadata lookup
PostRequestEnqueuesFirst(req) ==
  IF req.url \in {"yt_video", "so_track"} THEN PostQueue ELSE Rejected

\* POST /api/queue
PostRequest(req) == IF postStatus(req) = 201 THEN PostQueue ELSE Rejected

\* mutation of DeleteQueue: removing a track also forgets the current one
DeleteQueueResets(trackId) ==
  /\ queue' = remove(queue, trackId)
  /\ currentTrack' = NoTrack
  /\ NoWrite
  /\ UNCHANGED <<uuids, issued, playing, starting, paused, skipping, pausedAt,
                 totalPausedDuration, stopCurrent, currentFfmpegPid,
                 lastPlayedTrack, taps, phase, started, sent, suspended, timeouts,
                 awaiting, skipTimers, nextTimers, retryTimers, now,
                 url, normalized,
                 payloads, currentYoutubeThumbnail,
                 currentSoundcloudThumbnail, pausedMs>>

\* DELETE /api/queue/:trackId; the response status is deleteStatus
DeleteQueue(trackId) ==
  /\ queue' = remove(queue, trackId)
  /\ NoWrite
  /\ UNCHANGED <<uuids, issued, playing, starting, paused, skipping, pausedAt,
                 totalPausedDuration, stopCurrent, currentFfmpegPid, currentTrack,
                 lastPlayedTrack, taps, phase, started, sent, suspended, timeouts,
                 awaiting, skipTimers, nextTimers, retryTimers, now,
                 url, normalized,
                 payloads, currentYoutubeThumbnail,
                 currentSoundcloudThumbnail, pausedMs>>

\* PATCH /api/queue/:trackId with a numeric index; the response status is
\* patchStatus
PatchQueue(trackId, index) ==
  /\ queue' = move(queue, trackId, index)
  /\ NoWrite
  /\ UNCHANGED <<uuids, issued, playing, starting, paused, skipping, pausedAt,
                 totalPausedDuration, stopCurrent, currentFfmpegPid, currentTrack,
                 lastPlayedTrack, taps, phase, started, sent, suspended, timeouts,
                 awaiting, skipTimers, nextTimers, retryTimers, now,
                 url, normalized,
                 payloads, currentYoutubeThumbnail,
                 currentSoundcloudThumbnail, pausedMs>>

\* the status of the response to DELETE and to PATCH /api/queue/:trackId
deleteStatus(q, trackId) == IF removeReturns(q, trackId) THEN 200 ELSE 404
patchStatus(q, trackId) == IF moveReturns(q, trackId) THEN 200 ELSE 404

\* ---------------------------------------------------------- skipCurrent
\* mutation of skipCurrent: the playing flag is left as it is
skipCurrentKeepsPlaying ==
  /\ skipTimers < MaxSkipTimers
  /\ skipping' = TRUE
  /\ phase' = [p \in Ids |->
                 IF p = stopCurrent /\ phase[p] \in {"running", "closed"}
                 THEN "killed" ELSE phase[p]]
  /\ suspended' = [p \in Ids |-> IF p = stopCurrent THEN FALSE ELSE suspended[p]]
  /\ stopCurrent' = 0
  /\ currentFfmpegPid' = 0
  /\ currentTrack' = NoTrack
  /\ skipTimers' = skipTimers + 1
  /\ NoWrite
  /\ UNCHANGED <<queue, uuids, issued, playing, starting, paused, pausedAt,
                 totalPausedDuration, lastPlayedTrack, taps, started, sent,
                 timeouts, awaiting, nextTimers, retryTimers, now,
                 url, normalized,
                 payloads, currentYoutubeThumbnail,
                 currentSoundcloudThumbnail, pausedMs>>

\* POST /api/skip: the current encoder is killed and playNext follows in 150 ms
skipCurrent ==
  /\ skipTimers < MaxSkipTimers
  /\ skipping' = TRUE
  /\ phase' = [p \in Ids |->
                 IF p = stopCurrent /\ phase[p] \in {"running", "closed"}
                 THEN "killed" ELSE phase[p]]
  /\ suspended' = [p \in Ids |-> IF p = stopCurrent THEN FALSE ELSE suspended[p]]
  /\ stopCurrent' = 0
  /\ currentFfmpegPid' = 0
  /\ playing' = FALSE
  /\ currentTrack' = NoTrack
  /\ skipTimers' = skipTimers + 1
  /\ NoWrite
  /\ UNCHANGED <<queue, uuids, issued, starting, paused, pausedAt,
                 totalPausedDuration, lastPlayedTrack, taps, started, sent,
                 timeouts, awaiting, nextTimers, retryTimers, now,
                 url, normalized,
                 payloads, currentYoutubeThumbnail,
                 currentSoundcloudThumbnail, pausedMs>>

\* the 150 ms timer of skipCurrent
SkipTimer ==
  /\ skipTimers > 0
  /\ skipTimers' = skipTimers - 1
  /\ skipping' = FALSE
  /\ playNext(queue, FALSE)
  /\ NoWrite
  /\ UNCHANGED <<uuids, issued, paused, pausedAt, totalPausedDuration,
                 stopCurrent, currentFfmpegPid, taps, started, sent, suspended,
                 timeouts, nextTimers, retryTimers, now,
                 url, normalized, payloads, pausedMs>>

\* a 100 ms timer set by an end, error or timeout callback
NextTimer ==
  /\ nextTimers > 0
  /\ nextTimers' = nextTimers - 1
  /\ playNext(queue, FALSE)
  /\ NoWrite
  /\ UNCHANGED <<uuids, issued, paused, skipping, pausedAt, totalPausedDuration,
                 stopCurrent, currentFfmpegPid, taps, started, sent, suspended,
                 timeouts, skipTimers, retryTimers, now,
                 url, normalized, payloads, pausedMs>>

\* the 1 s timer set when a track could not be started
RetryTimer ==
  /\ retryTimers > 0
  /\ retryTimers' = retryTimers - 1
  /\ playNext(queue, FALSE)
  /\ NoWrite
  /\ UNCHANGED <<uuids, issued, paused, skipping, pausedAt, totalPausedDuration,
                 stopCurrent, currentFfmpegPid, taps, started, sent, suspended,
                 timeouts, skipTimers, nextTimers, now,
                 url, normalized, payloads, pausedMs>>

\* ----------------------------------------------------------- playTrack
\* the ensurePlaying call that awaited track p's playNext runs its finally
EnsureReturns(p) ==
  /\ starting' = (IF awaiting = p THEN FALSE ELSE starting)
  /\ awaiting' = (IF awaiting = p THEN 0 ELSE awaiting)

\* mutation of FetchDone: the other source's thumbnail is left in its cache
FetchDoneKeepsOther(p) ==
  /\ phase[p] = "fetching"
  /\ pausedAt' = 0
  /\ totalPausedDuration' = 0
  /\ currentTrack' = Track(p)
  /\ lastPlayedTrack' = Track(p)
  /\ playing' = TRUE
  /\ phase' = [phase EXCEPT ![p] = "running"]
  /\ stopCurrent' = p
  /\ timeouts' = timeouts \cup {p}
  /\ EnsureReturns(p)
  /\ pausedMs' = 0
  /\ IF payloads[p].source = "youtube"
     THEN /\ currentYoutubeThumbnail' = payloads[p].thumbnail
          /\ UNCHANGED currentSoundcloudThumbnail
     ELSE /\ currentSoundcloudThumbnail' = payloads[p].thumbnail
          /\ UNCHANGED currentYoutubeThumbnail
  /\ NoWrite
  /\ UNCHANGED <<queue, uuids, issued, paused, skipping, currentFfmpegPid, taps,
                 started, sent, suspended, skipTimers, nextTimers, retryTimers, now,
                 url, normalized, payloads>>

\* createAudioStream resolved: playTrack runs from line 427 to its end
FetchDone(p) ==
  /\ phase[p] = "fetching"
  /\ pausedAt' = 0
  /\ totalPausedDuration' = 0
  /\ currentTrack' = Track(p)
  /\ lastPlayedTrack' = Track(p)
  /\ playing' = TRUE
  /\ phase' = [phase EXCEPT ![p] = "running"]
  /\ stopCurrent' = p
  /\ timeouts' = timeouts \cup {p}
  /\ EnsureReturns(p)
  /\ pausedMs' = 0
  /\ IF payloads[p].source = "youtube"
     THEN /\ currentYoutubeThumbnail' = payloads[p].thumbnail
          /\ currentSoundcloudThumbnail' = 0
     ELSE IF payloads[p].source = "soundcloud"
     THEN /\ currentSoundcloudThumbnail' = payloads[p].thumbnail
          /\ currentYoutubeThumbnail' = 0
     ELSE UNCHANGED <<currentYoutubeThumbnail, currentSoundcloudThumbnail>>
  /\ NoWrite
  /\ UNCHANGED <<queue, uuids, issued, paused, skipping, currentFfmpegPid, taps,
                 started, sent, suspended, skipTimers, nextTimers, retryTimers, now,
                 url, normalized, payloads>>

\* mutation of FetchFail: the catch block leaves the track fields alone
FetchFailKeepsCurrent(p) ==
  /\ phase[p] = "fetching"
  /\ phase' = [phase EXCEPT ![p] = "failed"]
  /\ playing' = FALSE
  /\ retryTimers' = retryTimers + 1
  /\ EnsureReturns(p)
  /\ NoWrite
  /\ UNCHANGED <<queue, uuids, issued, paused, skipping, pausedAt, currentTrack,
                 lastPlayedTrack, totalPausedDuration, stopCurrent,
                 currentFfmpegPid, taps, started, sent, suspended, timeouts,
                 skipTimers, nextTimers, now, url, normalized,
                 payloads, currentYoutubeThumbnail,
                 currentSoundcloudThumbnail, pausedMs>>

\* createAudioStream threw: the catch clause of playNext
FetchFail(p) ==
  /\ phase[p] = "fetching"
  /\ phase' = [phase EXCEPT ![p] = "failed"]
  /\ currentTrack' = NoTrack
  /\ lastPlayedTrack' = NoTrack
  /\ playing' = FALSE
  /\ retryTimers' = retryTimers + 1
  /\ EnsureReturns(p)
  /\ NoWrite
  /\ UNCHANGED <<queue, uuids, issued, paused, skipping, pausedAt,
                 totalPausedDuration, stopCurrent, currentFfmpegPid, taps, started,
                 sent, suspended, timeouts, skipTimers, nextTimers, now,
                 url, normalized,
                 payloads, currentYoutubeThumbnail,
                 currentSoundcloudThumbnail, pausedMs>>

\* the encoder's 'start' event
EncStart(p) ==
  /\ phase[p] = "running"
  /\ ~started[p]
  /\ started' = [started EXCEPT ![p] = TRUE]
  /\ currentFfmpegPid' = p
  /\ NoWrite
  /\ UNCHANGED <<queue, uuids, issued, playing, starting, paused, skipping,
                 pausedAt, totalPausedDuration, stopCurrent, currentTrack,
                 lastPlayedTrack, taps, phase, sent, suspended, timeouts, awaiting,
                 skipTimers, nextTimers, retryTimers, now,
                 url, normalized,
                 payloads, currentYoutubeThumbnail,
                 currentSoundcloudThumbnail, pausedMs>>

\* output 'data': the first chunk stamps startedAt and clears the safety timer
EncData(p) ==
  /\ phase[p] = "running"
  /\ started[p]
  /\ ~suspended[p]
  /\ sent[p] < MaxChunks
  /\ sent' = [sent EXCEPT ![p] = sent[p] + 1]
  /\ IF sent[p] = 0
     THEN /\ currentTrack' = [id |-> p, startedAt |-> now]
          /\ lastPlayedTrack' = [id |-> p, startedAt |-> now]
          /\ timeouts' = timeouts \ {p}
          /\ pausedMs' = 0
     ELSE UNCHANGED <<currentTrack, lastPlayedTrack, timeouts, pausedMs>>
  /\ broadcastChunk(Chunk(p, sent[p] + 1))
  /\ UNCHANGED <<queue, uuids, issued, playing, starting, paused, skipping,
                 pausedAt, totalPausedDuration, stopCurrent, currentFfmpegPid,
                 taps, phase, started, suspended, awaiting, skipTimers,
                 nextTimers, retryTimers, now, url, normalized,
                 payloads, currentYoutubeThumbnail,
                 currentSoundcloudThumbnail>>

\* mutation of EncoderGone: the handler schedules no playNext
EncoderGoneNoNext(p) ==
  /\ phase' = [phase EXCEPT ![p] = "done"]
  /\ suspended' = [suspended EXCEPT ![p] = FALSE]
  /\ playing' = FALSE
  /\ stopCurrent' = 0
  /\ currentFfmpegPid' = 0
  /\ UNCHANGED <<queue, uuids, issued, starting, paused, skipping, pausedAt,
                 totalPausedDuration, currentTrack, lastPlayedTrack, taps, started,
                 sent, timeouts, awaiting, skipTimers, nextTimers, retryTimers, now,
                 url, normalized,
                 payloads, currentYoutubeThumbnail,
                 currentSoundcloudThumbnail, pausedMs>>

\* what the 'error' and 'end' handlers share
EncoderGone(p) ==
  /\ phase' = [phase EXCEPT ![p] = "done"]
  /\ suspended' = [suspended EXCEPT ![p] = FALSE]
  /\ playing' = FALSE
  /\ stopCurrent' = 0
  /\ currentFfmpegPid' = 0
  /\ nextTimers' = (IF ~skipping THEN nextTimers + 1 ELSE nextTimers)
  /\ UNCHANGED <<queue, uuids, issued, starting, paused, skipping, pausedAt,
                 totalPausedDuration, currentTrack, lastPlayedTrack, taps, started,
                 sent, timeouts, awaiting, skipTimers, retryTimers, now,
                 url, normalized,
                 payloads, currentYoutubeThumbnail,
                 currentSoundcloudThumbnail, pausedMs>>

\* the encoder's 'error' event: a failure of its own, or the exit of a killed
\* or closed pipeline
EncError(p) ==
  /\ \/ phase[p] = "running" /\ ~suspended[p]
     \/ phase[p] \in {"killed", "closed"}
  /\ EncoderGone(p)
  /\ NoWrite

\* the encoder's 'end' event
EncEnd(p) ==
  /\ \/ phase[p] = "running" /\ started[p] /\ ~suspended[p]
     \/ phase[p] \in {"killed", "closed"} /\ started[p]
  /\ EncoderGone(p)
  /\ IF taps # {} THEN sendSilence ELSE NoWrite

\* the 30 s safety timer of track p fires
SafetyTimeout(p) ==
  /\ p \in timeouts
  /\ timeouts' = timeouts \ {p}
  /\ IF sent[p] = 0 /\ currentTrack.id = p
     THEN /\ phase' = [phase EXCEPT ![p] = IF phase[p] = "running" THEN "closed" ELSE phase[p]]
          /\ playing' = FALSE
          /\ nextTimers' = nextTimers + 1
     ELSE UNCHANGED <<phase, playing, nextTimers>>
  /\ NoWrite
  /\ UNCHANGED <<queue, uuids, issued, starting, paused, skipping, pausedAt,
                 totalPausedDuration, stopCurrent, currentFfmpegPid, currentTrack,
                 lastPlayedTrack, taps, started, sent, suspended, awaiting,
                 skipTimers, retryTimers, now, url, normalized,
                 payloads, currentYoutubeThumbnail,
                 currentSoundcloudThumbnail, pausedMs>>

\* ------------------------------------------------------------ setPaused
\* process.kill(pid, SIGSTOP / SIGCONT) inside its try: only a live process
\* takes the signal; the process of a closed pipeline may have exited already,
\* and then the call throws and the catch logs it
Signal(pid, stop) ==
  \E refused \in BOOLEAN :
    /\ refused => (pid # 0 /\ phase[pid] = "closed")
    /\ suspended' = [p \in Ids |->
                       IF p = pid /\ phase[p] \in {"running", "closed"} /\ ~refused
                       THEN stop ELSE suspended[p]]

\* mutation of setPaused: a refused signal ends the call before the flag and
\* the accumulator are written
setPausedGivesUp(p) ==
  /\ IF p /\ ~paused
     THEN /\ pausedAt' = now
          /\ Signal(currentFfmpegPid, TRUE)
          /\ paused' = (currentFfmpegPid = 0 \/ suspended'[currentFfmpegPid])
          /\ flushWithSilence
          /\ UNCHANGED totalPausedDuration
     ELSE IF ~p /\ paused /\ pausedAt # 0
     THEN /\ totalPausedDuration' = totalPausedDuration + (now - pausedAt)
          /\ pausedAt' = 0
          /\ paused' = FALSE
          /\ Signal(currentFfmpegPid, FALSE)
          /\ NoWrite
     ELSE /\ paused' = p
          /\ NoWrite
          /\ UNCHANGED <<pausedAt, totalPausedDuration, suspended>>
  /\ UNCHANGED <<queue, uuids, issued, playing, starting, skipping, stopCurrent,
                 currentFfmpegPid, currentTrack, lastPlayedTrack, taps, phase,
                 started, sent, timeouts, awaiting, skipTimers, nextTimers,
                 retryTimers, now, url, normalized,
                 payloads, currentYoutubeThumbnail,
                 currentSoundcloudThumbnail, pausedMs>>

setPaused(p) ==
  /\ IF p /\ ~paused
     THEN /\ pausedAt' = now
          /\ paused' = TRUE
          /\ Signal(currentFfmpegPid, TRUE)
          /\ flushWithSilence
          /\ UNCHANGED totalPausedDuration
     ELSE IF ~p /\ paused /\ pausedAt # 0
     THEN /\ totalPausedDuration' = totalPausedDuration + (now - pausedAt)
          /\ pausedAt' = 0
          /\ paused' = FALSE
          /\ Signal(currentFfmpegPid, FALSE)
          /\ NoWrite
     ELSE /\ paused' = p
          /\ NoWrite
          /\ UNCHANGED <<pausedAt, totalPausedDuration, suspended>>
  /\ UNCHANGED <<queue, uuids, issued, playing, starting, skipping, stopCurrent,
                 currentFfmpegPid, currentTrack, lastPlayedTrack, taps, phase,
                 started, sent, timeouts, awaiting, skipTimers, nextTimers,
                 retryTimers, now, url, normalized,
                 payloads, currentYoutubeThumbnail,
                 currentSoundcloudThumbnail, pausedMs>>

\* ------------------------------------------------- silence interval, clock
\* mutation of startSilenceBroadcast: the playing test is inverted
silenceWhilePlaying ==
  IF playing /\ taps # {} THEN broadcastChunk(SILENCE_FRAME) ELSE NoWrite
\* the setInterval callback of startSilenceBroadcast
startSilenceBroadcast ==
  IF ~playing /\ taps # {} THEN broadcastChunk(SILENCE_FRAME) ELSE NoWrite

\* 50 ms pass and the interval callback runs
Tick ==
  /\ now < TickMs * (MaxTicks + 1)
  /\ now' = now + TickMs
  /\ pausedMs' = (IF paused /\ currentTrack.startedAt # 0
                  THEN pausedMs + TickMs ELSE pausedMs)
  /\ startSilenceBroadcast
  /\ UNCHANGED <<queue, uuids, issued, playing, starting, paused, skipping,
                 pausedAt, totalPausedDuration, stopCurrent, currentFfmpegPid,
                 currentTrack, lastPlayedTrack, taps, phase, started, sent,
                 suspended, timeouts, awaiting, skipTimers, nextTimers, retryTimers,
                 url, normalized,
                 payloads, currentYoutubeThumbnail,
                 currentSoundcloudThumbnail>>

\* ------------------------------------------------------- listener attach
\* mutation of attachClient: the sink joins without the initial frame
attachClientSilent(l) ==
  /\ l \notin taps
  /\ \A m \in Listeners \ taps : l <= m
  /\ taps' = taps \cup {l}
  /\ wrote' = [m \in Listeners |-> <<>>]
  /\ log' = [log EXCEPT ![l] = <<>>]
  /\ UNCHANGED <<queue, uuids, issued, playing, starting, paused, skipping,
                 pausedAt, totalPausedDuration, stopCurrent, currentFfmpegPid,
                 currentTrack, lastPlayedTrack, phase, started, sent, suspended,
                 timeouts, awaiting, skipTimers, nextTimers, retryTimers, now,
                 url, normalized,
                 payloads, currentYoutubeThumbnail,
                 currentSoundcloudThumbnail, pausedMs>>

\* GET /stream: a new sink joins and is written one silence frame
attachClient(l) ==
  /\ l \notin taps
  /\ \A m \in Listeners \ taps : l <= m
  /\ taps' = taps \cup {l}
  /\ wrote' = [m \in Listeners |-> IF m = l THEN <<SILENCE_FRAME>> ELSE <<>>]
  /\ log' = [log EXCEPT ![l] = <<SILENCE_FRAME>>]
  /\ UNCHANGED <<queue, uuids, issued, playing, starting, paused, skipping,
                 pausedAt, totalPausedDuration, stopCurrent, currentFfmpegPid,
                 currentTrack, lastPlayedTrack, phase, started, sent, suspended,
                 timeouts, awaiting, skipTimers, nextTimers, retryTimers, now,
                 url, normalized,
                 payloads, currentYoutubeThumbnail,
                 currentSoundcloudThumbnail,
                 pausedMs>>

\* mutation of ClientClose: the close handler deletes the oldest sink of the set
ClientCloseOldest(l) ==
  /\ l \in taps
  /\ taps' = {m \in taps : \E n \in taps : n < m}
  /\ wrote' = [m \in Listeners |-> <<>>]
  /\ log' = [log EXCEPT ![l] = <<>>]
  /\ UNCHANGED <<queue, uuids, issued, playing, starting, paused, skipping,
                 pausedAt, totalPausedDuration, stopCurrent, currentFfmpegPid,
                 currentTrack, lastPlayedTrack, phase, started, sent, suspended,
                 timeouts, awaiting, skipTimers, nextTimers, retryTimers, now,
                 url, normalized,
                 payloads, currentYoutubeThumbnail,
                 currentSoundcloudThumbnail,
                 pausedMs>>

\* mutation of ClientClose: the close handler empties the whole set
ClientCloseAll(l) ==
  /\ l \in taps
  /\ taps' = {}
  /\ wrote' = [m \in Listeners |-> <<>>]
  /\ log' = [log EXCEPT ![l] = <<>>]
  /\ UNCHANGED <<queue, uuids, issued, playing, starting, paused, skipping,
                 pausedAt, totalPausedDuration, stopCurrent, currentFfmpegPid,
                 currentTrack, lastPlayedTrack, phase, started, sent, suspended,
                 timeouts, awaiting, skipTimers, nextTimers, retryTimers, now,
                 url, normalized,
                 payloads, currentYoutubeThumbnail,
                 currentSoundcloudThumbnail,
                 pausedMs>>

\* the response's 'close' event: the sink is destroyed and leaves the set
ClientClose(l) ==
  /\ l \in taps
  /\ taps' = taps \ {l}
  /\ wrote' = [m \in Listeners |-> <<>>]
  /\ log' = [log EXCEPT ![l] = <<>>]
  /\ UNCHANGED <<queue, uuids, issued, playing, starting, paused, skipping,
                 pausedAt, totalPausedDuration, stopCurrent, currentFfmpegPid,
                 currentTrack, lastPlayedTrack, phase, started, sent, suspended,
                 timeouts, awaiting, skipTimers, nextTimers, retryTimers, now,
                 url, normalized,
                 payloads, currentYoutubeThumbnail,
                 currentSoundcloudThumbnail,
                 pausedMs>>

\* ----------------------------------------------------- specifications
\* the requests that name a queued track
QueueEdits ==
  \/ \E t \in Ids : findIndex(queue, t) # -1 /\ DeleteQueue(t)
  \/ \E t \in Ids, k \in -1..MaxTracks : findIndex(queue, t) # -1 /\ PatchQueue(t, k)

PlayTimers == NextTimer \/ RetryTimer

Timers == SkipTimer \/ PlayTimers

Fetcher == \E p \in Ids : FetchDone(p) \/ FetchFail(p)

Encoder ==
  \E p \in Ids : EncStart(p) \/ EncData(p) \/ EncError(p) \/ EncEnd(p) \/ SafetyTimeout(p)

Pausing == \E b \in BOOLEAN : setPaused(b)

Clients == \E l \in Listeners : attachClient(l) \/ ClientClose(l)

\* the whole program
Next ==
  \/ PostQueue \/ QueueEdits \/ skipCurrent \/ Timers \/ Fetcher \/ Encoder
  \/ Pausing \/ Tick \/ Clients

Spec == Init /\ [][Next]_vars

\* restrictions of the environment used by the projections below
FewPosts == uuids < FewTracks /\ PostQueue

FirstChunks ==
  \E p \in Ids :
    \/ EncStart(p) \/ (sent[p] < FewChunks /\ EncData(p))
    \/ EncError(p) \/ EncEnd(p) \/ SafetyTimeout(p)

FewClients ==
  \E l \in Listeners :
    (Cardinality(taps) < PlainListeners /\ attachClient(l)) \/ ClientClose(l)

\* The program with no listener attached and setPaused never called: the
\* queue, the playback state machine, its timers and the encoder callbacks.
NextEngine ==
  PostQueue \/ QueueEdits \/ skipCurrent \/ Timers \/ Fetcher \/ FirstChunks

SpecEngine == Init /\ [][NextEngine]_vars

\* The program with no listener attached and the queue never edited: playback,
\* skip, pause/resume and the clock.
NextPause ==
  FewPosts \/ skipCurrent \/ Timers \/ Fetcher \/ FirstChunks \/ Pausing \/ Tick

SpecPause == Init /\ [][NextPause]_vars

\* The program with listeners, pause/resume and the clock, the queue never
\* edited and skipCurrent never called.
NextFan ==
  FewPosts \/ PlayTimers \/ Fetcher \/ FirstChunks \/ Pausing \/ Tick \/ Clients

SpecFan == Init /\ [][NextFan]_vars

\* The program with a listener and the clock where setPaused and skipCurrent
\* are never called and the queue is never edited.
NextPlain == PostQueue \/ PlayTimers \/ Fetcher \/ Encoder \/ Tick \/ FewClients

SpecPlain == Init /\ [][NextPlain]_vars

\* The program with a listener and skipCurrent, where setPaused is never
\* called, the clock stands still and the queue is never edited.
NextSkip ==
  FewPosts \/ skipCurrent \/ Timers \/ Fetcher \/ FirstChunks \/ FewClients

SpecSkip == Init /\ [][NextSkip]_vars

\* the TrackQueue alone: its own operations and the two endpoints that edit it,
\* called with any id and any index
QueueIds == 0..(QueueTracks + 1)

Enqueue ==
  /\ uuids < QueueTracks
  /\ queue' = enqueue(queue, Track(0))
  /\ issued' = Append(issued, queue'[Len(queue')].id)
  /\ uuids' = uuids + 1
  /\ NoWrite
  /\ UNCHANGED <<playing, starting, paused, skipping, pausedAt,
                 totalPausedDuration, stopCurrent, currentFfmpegPid, currentTrack,
                 lastPlayedTrack, taps, phase, started, sent, suspended, timeouts,
                 awaiting, skipTimers, nextTimers, retryTimers, now,
                 url, normalized,
                 payloads, currentYoutubeThumbnail,
                 currentSoundcloudThumbnail, pausedMs>>

Dequeue ==
  /\ queue # <<>>
  /\ queue' = dequeue(queue)
  /\ NoWrite
  /\ UNCHANGED <<uuids, issued, playing, starting, paused, skipping, pausedAt,
                 totalPausedDuration, stopCurrent, currentFfmpegPid, currentTrack,
                 lastPlayedTrack, taps, phase, started, sent, suspended, timeouts,
                 awaiting, skipTimers, nextTimers, retryTimers, now,
                 url, normalized,
                 payloads, currentYoutubeThumbnail,
                 currentSoundcloudThumbnail, pausedMs>>

AnyDelete == \E t \in QueueIds : DeleteQueue(t)
AnyPatch == \E t \in QueueIds, k \in -1..(QueueTracks + 1) : PatchQueue(t, k)

NextQueue == Enqueue \/ Dequeue \/ AnyDelete \/ AnyPatch

SpecQueue == Init /\ [][NextQueue]_vars

\* The program with no listener attached where skipCurrent is never called
\* and the clock stands still: playback, queue edits and pause/resume.
NextEdit == PostQueue \/ QueueEdits \/ PlayTimers \/ Fetcher \/ FirstChunks \/ Pausing

SpecEdit == Init /\ [][NextEdit]_vars

\* The program with no listener attached, setPaused never called, the clock
\* standing still and the queue never edited, where every pending timer
\* eventually fires (Node runs a timer callback once its delay has passed).
NextDrain == FewPosts \/ skipCurrent \/ Timers \/ Fetcher \/ FirstChunks

SpecDrain ==
  /\ Init /\ [][NextDrain]_vars
  /\ WF_vars(SkipTimer) /\ WF_vars(NextTimer) /\ WF_vars(RetryTimer)

\* The program with no listener attached where skipCurrent and setPaused are
\* never called, the clock stands still and the queue is never edited: every
\* kind of POST /api/queue request, and playback.
AnyPost == \E req \in Requests : PostRequest(req)

NextPost == AnyPost \/ PlayTimers \/ Fetcher \/ FirstChunks

SpecPost == Init /\ [][NextPost]_vars

\* The program with listeners and pause/resume where the clock stands still,
\* skipCurrent is never called and the queue is never edited.
NextTaps == FewPosts \/ PlayTimers \/ Fetcher \/ FirstChunks \/ Pausing \/ Clients

SpecTaps == Init /\ [][NextTaps]_vars

\* normalizeYoutubeUrl alone, called with any url
Normalize(u) ==
  /\ url' = u
  /\ normalized' = normalizeYoutubeUrl(u)
  /\ NoWrite
  /\ UNCHANGED <<queue, uuids, issued, playing, starting, paused, skipping,
                 pausedAt, totalPausedDuration, stopCurrent, currentFfmpegPid,
                 currentTrack, lastPlayedTrack, taps, phase, started, sent,
                 suspended, timeouts, awaiting, skipTimers, nextTimers,
                 retryTimers, now, pausedMs,
                 payloads,
                 currentYoutubeThumbnail, currentSoundcloudThumbnail>>

NextUrl == \E u \in Urls : Normalize(u)

SpecUrl == Init /\ [][NextUrl]_vars

\* The program with no listener attached, setPaused never called, the clock
\* standing still and the queue never edited, where the posted tracks are of
\* either source, with or without a thumbnail.
AnyTrack ==
  \E source \in {"youtube", "soundcloud"}, thumbnail \in BOOLEAN :
    uuids < FewTracks /\ PostTrack(source, thumbnail)

NextThumb == AnyTrack \/ skipCurrent \/ Timers \/ Fetcher \/ FirstChunks

SpecThumb == Init /\ [][NextThumb]_vars

\* The program with no listener attached where skipCurrent is never called
\* and the queue is never edited: playback, pause/resume, the clock and the
\* status request.
NextStatus ==
  FewPosts \/ PlayTimers \/ Fetcher \/ FirstChunks \/ Pausing \/ Tick \/ GetStatus

SpecStatus == Init /\ [][NextStatus]_vars

\* The program with no listener attached, the clock standing still and the
\* queue never edited, under the scheduling Node and the environment provide:
\* every pending timer fires, every fetch resolves or rejects, every encoder
\* that is not stopped by a signal ends or fails, and a pause is followed by
\* a resume.
NextLive == FewPosts \/ skipCurrent \/ Timers \/ Fetcher \/ FirstChunks \/ Pausing

SpecLive ==
  /\ Init /\ [][NextLive]_vars
  /\ WF_vars(SkipTimer) /\ WF_vars(NextTimer) /\ WF_vars(RetryTimer)
  /\ \A p \in Ids : WF_vars(FetchDone(p) \/ FetchFail(p))
  /\ \A p \in Ids : SF_vars(EncError(p) \/ EncEnd(p))
  /\ WF_vars(setPaused(FALSE))

\* ---------------------------------------------------------------- claims

\* C1: at most one encoder pipeline is alive at any time (no second track is
\* given an encoder while an earlier track's encoder still runs).
C1_OneEncoder == Cardinality({p \in Ids : phase[p] = "running"}) <= 1

\* C2: the end/error callback of an encoder that skipCurrent killed schedules
\* no playNext of its own, so a skip advances the queue only through its own
\* 150 ms timer (no double-advance).
C2_NoDoubleAdvance ==
  [][\A p \in Ids : (phase[p] = "killed" /\ phase'[p] = "done")
                      => nextTimers' = nextTimers]_vars

\* C3: the track getState reports as current (the current track or, between
\* tracks, the last-played one) has an id that is not in the reported queue.
C3_CurrentNotInQueue ==
  getState.current # NoTrack =>
    \A i \in 1..Len(getState.queue) : getState.queue[i].id # getState.current.id

C3_Witness ==
  /\ currentTrack = NoTrack
  /\ lastPlayedTrack # NoTrack
  /\ Len(getState.queue) >= 2

\* C4: the ids returned by enqueue are pairwise different, also after tracks
\* have left the queue.
C4_FreshIds ==
  \A i, j \in 1..Len(issued) : i # j => issued[i] # issued[j]

C4_Witness ==
  /\ Len(issued) = MaxTracks
  /\ Len(queue) = 1
  /\ queue[1].id = issued[MaxTracks]

\* C5: while no pause and no skip occurs, every chunk k > 1 of an encoder that
\* is written to a listener follows, on that listener, chunk k - 1 of the same
\* encoder or the listener's initial silence frame: nothing is dropped,
\* reordered, duplicated or inserted.
C5_ContiguousRun ==
  [][\A l \in taps \cap taps' : \A p \in Ids, k \in 2..MaxChunks :
       wrote'[l] = <<Chunk(p, k)>> =>
         \/ Len(log[l]) = 1
         \/ log[l][Len(log[l])] = Chunk(p, k - 1)]_vars

\* C6: in every step, two listeners attached before and after the step are
\* written the same items.
C6_SameStream ==
  [][\A l1, l2 \in taps \cap taps' : wrote'[l1] = wrote'[l2]]_vars

C6_Witness ==
  /\ taps = Listeners
  /\ \E p \in Ids : \A l \in Listeners : wrote[l] = <<Chunk(p, 1)>>

\* C7: while paused stays true and the same stamped track is reported, the
\* reported startedAt does not change from one state to the next.
C7_FrozenTimeline ==
  [][(/\ paused /\ paused'
      /\ getState.current.startedAt # 0
      /\ getState.current.id = getState'.current.id)
       => getState'.current.startedAt = getState.current.startedAt]_vars

C7_Witness ==
  /\ paused
  /\ currentTrack.startedAt # 0
  /\ pausedAt # 0
  /\ now >= pausedAt + 2 * TickMs

\* C8: once not paused, now minus the reported startedAt is the wall-clock
\* time since the current track's first chunk minus the time spent paused
\* since then.
C8_AudibleTime ==
  (~paused /\ currentTrack.startedAt # 0) =>
    now - getState.current.startedAt = (now - currentTrack.startedAt) - pausedMs

\* no encoder delivers audio: none runs, or the current track waits for its
\* first chunk, or the engine is paused with every running encoder suspended
Quiet ==
  \/ \A p \in Ids : phase[p] # "running"
  \/ /\ currentTrack # NoTrack /\ currentTrack.startedAt = 0
     /\ \A p \in Ids : phase[p] = "running" => sent[p] = 0
  \/ /\ paused
     /\ \A p \in Ids : phase[p] = "running" => suspended[p]

\* C9: at every 50 ms tick with a listener attached and no audio being
\* delivered, every attached listener is written a silence frame.
C9_KeptAlive ==
  [][(now' # now /\ taps # {} /\ Quiet)
       => \A l \in taps : wrote'[l] = <<SILENCE_FRAME>>]_vars

\* C10 as stated: at every 50 ms tick with the queue empty and a listener
\* attached, every attached listener is written one silence frame.
C10_IdleSilenceQueueEmpty ==
  [][(now' # now /\ queue = <<>> /\ taps # {})
       => \A l \in taps : wrote'[l] = <<SILENCE_FRAME>>]_vars

\* C10 amended: at every 50 ms tick with the playing flag false and a listener
\* attached, every attached listener is written one silence frame.
C10_IdleSilence ==
  [][(now' # now /\ ~playing /\ taps # {})
       => \A l \in taps : wrote'[l] = <<SILENCE_FRAME>>]_vars

C10_Witness ==
  /\ taps = Listeners
  /\ ~playing
  /\ now > TickMs
  /\ \A p \in Ids : phase[p] = "none"
  /\ \A l \in Listeners : wrote[l] = <<SILENCE_FRAME>> /\ Len(log[l]) = 2


\* C11: a step of the encoder's end handler, and a step of skipCurrent that
\* ends a current track, taken with a listener attached, write one silence
\* frame to every attached listener.
C11_GapSilence ==
  [][(taps # {} /\ ((currentTrack # NoTrack /\ skipCurrent) \/ \E p \in Ids : EncEnd(p)))
       => \A l \in taps : wrote'[l] = <<SILENCE_FRAME>>]_vars


\* C12: a step taken while paused writes no audio chunk to any listener, and
\* a data event of an encoder taken while paused writes one silence frame to
\* every attached listener.
C12_PauseSilence ==
  [][paused =>
       \A l \in Listeners :
         /\ \A i \in 1..Len(wrote'[l]) : wrote'[l][i].enc = 0
         /\ (\E p \in Ids : sent'[p] # sent[p])
              => wrote'[l] = IF l \in taps THEN <<SILENCE_FRAME>> ELSE <<>>]_vars

C12_Witness ==
  /\ paused /\ playing
  /\ taps = Listeners
  /\ currentTrack.startedAt # 0
  /\ \A l \in Listeners : wrote[l] = <<SILENCE_FRAME>>


\* C13: a step that turns paused from false to true writes exactly one flush
\* block of 100 silence frames to every attached listener, and setPaused(true)
\* taken while already paused writes nothing.
C13_PauseFlush ==
  [][/\ (~paused /\ paused') =>
          \A l \in taps : wrote'[l] = <<SILENCE_FLUSH>> /\ wrote'[l][1].frames = 100
     /\ (paused /\ setPaused(TRUE)) =>
          \A l \in Listeners : wrote'[l] = <<>>]_vars

C13_Witness ==
  /\ paused
  /\ taps = Listeners
  /\ playing
  /\ \A l \in Listeners : wrote[l] = <<SILENCE_FLUSH>>


\* C14: the ensurePlaying call of a POST /api/queue made while playing or
\* starting is true dequeues nothing and changes no flag, no track and no
\* encoder; a call made while both are false sets starting and dequeues
\* exactly one track.
C14_EnsureIdempotent ==
  [][uuids' = uuids + 1 =>
       IF playing \/ starting
       THEN /\ Len(queue') = Len(queue) + 1
            /\ SubSeq(queue', 1, Len(queue)) = queue
            /\ UNCHANGED <<phase, currentTrack, lastPlayedTrack, playing, starting,
                           paused, skipping, stopCurrent, currentFfmpegPid,
                           awaiting, started, sent>>
       ELSE /\ starting'
            /\ Len(queue') = Len(queue)
            /\ Cardinality({p \in Ids : phase'[p] # phase[p]}) = 1
            /\ \A p \in Ids : phase'[p] # phase[p] => phase'[p] = "fetching"]_vars

C14_Witness ==
  /\ starting /\ ~playing
  /\ awaiting # 0
  /\ Len(queue) = 2
  /\ queue[2].id = uuids


\* C15: after a step of skipCurrent no track that was being fetched or
\* encoded before it is still being fetched or encoded: the fetch and the
\* encoder of the track in progress are cancelled.
C15_SkipCancels ==
  [][skipTimers' = skipTimers + 1 =>
       \A p \in Ids : phase[p] \in {"fetching", "running"}
                        => phase'[p] \notin {"fetching", "running"}]_vars


\* C16: when a track becomes current in place of a skipped track p (the
\* current track is null and p is the last-played one only after a skip), the
\* encoder of p is no longer running.
C16_NextAfterKill ==
  [][\A p \in Ids :
       (currentTrack = NoTrack /\ lastPlayedTrack.id = p /\ currentTrack'.id \notin {0, p})
         => phase[p] # "running"]_vars


\* C17: when the safety timer of the current track p fires before p has
\* produced a chunk, p's encoder no longer runs, the handles stopCurrent and
\* currentFfmpegPid no longer refer to it, and one playNext is scheduled.
C17_TimeoutDestroys ==
  [][\A p \in Ids :
       (/\ p \in timeouts /\ p \notin timeouts'
        /\ sent[p] = 0 /\ sent'[p] = 0
        /\ currentTrack.id = p /\ phase[p] = "running")
         => /\ phase'[p] # "running"
            /\ stopCurrent' # p
            /\ currentFfmpegPid' # p
            /\ nextTimers' = nextTimers + 1]_vars


\* C18: a track whose fetchers all fail is dropped: in that step the reported
\* current track becomes null, one retry of playNext is scheduled and the
\* track is not in the queue; afterwards it stays failed, is never the current
\* or last-played track and never in the queue; and the retry, when nothing
\* plays and the queue is not empty, dequeues the head and starts its fetch.
C18_FailedDropped ==
  [][/\ \A p \in Ids :
          /\ (phase[p] = "fetching" /\ phase'[p] = "failed")
               => /\ getState'.current = NoTrack
                  /\ retryTimers' = retryTimers + 1
                  /\ findIndex(queue', p) = -1
          /\ phase[p] = "failed"
               => /\ phase'[p] = "failed"
                  /\ currentTrack'.id # p
                  /\ lastPlayedTrack'.id # p
                  /\ findIndex(queue', p) = -1
     /\ (retryTimers' = retryTimers - 1 /\ ~playing /\ queue # <<>>)
          => /\ phase'[Head(queue).id] = "fetching"
             /\ queue' = Tail(queue)]_vars

C18_Witness ==
  \E p, q \in Ids :
    /\ phase[p] = "failed" /\ phase[q] = "fetching" /\ p < q
    /\ retryTimers = 0 /\ getState.current = NoTrack


\* C19: a PATCH step that names a queued track t with index k leaves t at
\* index max(0, min(k, size - 1)) of the queue, which keeps its size: at index
\* 0 when k < 0 and at the last index when k >= size; move returns true.
C19_MoveClamps ==
  [][\A t \in QueueIds, k \in -1..(QueueTracks + 1) :
       (findIndex(queue, t) # -1 /\ PatchQueue(t, k))
         => /\ moveReturns(queue, t)
            /\ Len(queue') = Len(queue)
            /\ findIndex(queue', t) = Max(0, Min(k, Len(queue) - 1))
            /\ k < 0 => queue'[1].id = t
            /\ k >= Len(queue) => queue'[Len(queue')].id = t]_vars

\* a queue of three or more whose oldest track was moved to the last index
C19_Witness ==
  /\ Len(queue) >= 3
  /\ queue[Len(queue)].id = 1
  /\ \A i \in 1..(Len(queue) - 2) : queue[i].id < queue[i + 1].id

\* C20: for an id that is not in the queue, remove and move return false and
\* give back the queue as it was, DELETE and PATCH answer 404, and a DELETE or
\* PATCH step naming such an id changes no variable.
C20_AbsentId ==
  /\ [](\A t \in QueueIds :
          findIndex(queue, t) = -1
            => /\ ~removeReturns(queue, t) /\ remove(queue, t) = queue
               /\ deleteStatus(queue, t) = 404
               /\ ~moveReturns(queue, t) /\ patchStatus(queue, t) = 404
               /\ \A k \in -1..(QueueTracks + 1) : move(queue, t, k) = queue)
  /\ [][\A t \in QueueIds :
          findIndex(queue, t) = -1
            => /\ DeleteQueue(t) => UNCHANGED vars
               /\ \A k \in -1..(QueueTracks + 1) : PatchQueue(t, k) => UNCHANGED vars]_vars

\* a queue that still holds tracks after one issued id has left it
C20_Witness ==
  /\ Len(queue) >= 2
  /\ \E t \in 1..uuids : findIndex(queue, t) = -1 /\ deleteStatus(queue, t) = 404


\* C21: a DELETE or PATCH step on a queued track leaves the current and the
\* last-played track with their startedAt, the playing, starting, skipping and
\* paused flags, the pause accumulator and every encoder as they were.
C21_EditsOnlyQueue ==
  [][\A t \in Ids :
       (findIndex(queue, t) # -1
          /\ (DeleteQueue(t) \/ \E k \in -1..MaxTracks : PatchQueue(t, k)))
         => /\ UNCHANGED <<currentTrack, lastPlayedTrack, playing, starting, paused,
                           skipping, pausedAt, totalPausedDuration, stopCurrent,
                           currentFfmpegPid, phase, started, sent, suspended>>
            /\ getState'.current = getState.current]_vars

\* paused while a track plays, and the two queued tracks have been reordered
C21_Witness ==
  /\ paused /\ playing /\ currentTrack.startedAt # 0
  /\ Len(queue) = 2 /\ queue[1].id > queue[2].id


\* C22: a step that attaches or closes listener l leaves the queue, the
\* current and last-played track, the playing, starting, skipping and paused
\* flags and every encoder as they were; every other listener stays attached
\* or detached as it was, is written nothing by the step and keeps the items
\* written to it so far.
C22_ListenerOnly ==
  [][\A l \in Listeners :
       (attachClient(l) \/ ClientClose(l))
         => /\ UNCHANGED <<queue, currentTrack, lastPlayedTrack, playing, starting,
                           skipping, paused, pausedAt, totalPausedDuration,
                           stopCurrent, currentFfmpegPid, phase, started, sent,
                           suspended>>
            /\ \A m \in Listeners \ {l} :
                 /\ (m \in taps') = (m \in taps)
                 /\ wrote'[m] = <<>>
                 /\ log'[m] = log[m]]_vars

\* the first listener has closed while a track plays; the second is still
\* attached and holds an audio chunk
C22_Witness ==
  /\ taps = {2} /\ playing
  /\ \E i \in 1..Len(log[2]) : log[2][i].enc # 0


\* C23: when the connection of listener l is gone (its response closes, which
\* is also how a failed write to it surfaces), the step removes l and no other
\* sink and changes nothing of the producer; afterwards every chunk an encoder
\* emits is written, as it is or as silence while paused, to every sink still
\* attached, and a sink that has left the set is written nothing.
C23_OnlyFailedSinkRemoved ==
  [][/\ \A l \in Listeners :
          ClientClose(l)
            => /\ taps' = taps \ {l}
               /\ UNCHANGED <<playing, starting, skipping, paused, phase, started,
                              sent, suspended, stopCurrent, currentFfmpegPid,
                              nextTimers, retryTimers, timeouts>>
     /\ \A p \in Ids :
          sent'[p] = sent[p] + 1
            => \A m \in taps :
                 wrote'[m] = <<IF paused THEN SILENCE_FRAME ELSE Chunk(p, sent'[p])>>
     /\ \A l \in Listeners : (l \notin taps /\ l \notin taps') => wrote'[l] = <<>>]_vars

\* after the first listener closed, an audio chunk has just been written to the
\* second one and to it alone
C23_Witness ==
  /\ taps = {2} /\ ~paused
  /\ \E p \in Ids : sent[p] > 0 /\ wrote[2] = <<Chunk(p, sent[p])>>
  /\ wrote[1] = <<>>


\* no track is queued, being fetched or encoded
Drained == queue = <<>> /\ \A p \in Ids : phase[p] \in {"none", "done", "failed"}

\* C24: once the queue is empty and every started track has ended, was skipped
\* or failed, the reported current track becomes null (unless a new track is
\* queued first); the end of an encoder and a skip leave the reported track the
\* last-played one; and a null report turns into a track only in a step that
\* starts one (its fetch resolves or its first chunk arrives).
C24_DrainsToNull ==
  /\ (Drained /\ lastPlayedTrack # NoTrack) ~> (getState.current = NoTrack \/ ~Drained)
  /\ [][/\ \A p \in Ids :
             (phase[p] # "done" /\ phase'[p] = "done") => getState'.current = getState.current
        /\ skipTimers' = skipTimers + 1 => getState'.current = lastPlayedTrack
        /\ (getState.current = NoTrack /\ getState'.current # NoTrack)
             => \E p \in Ids :
                  /\ getState'.current.id = p
                  /\ \/ phase[p] = "fetching" /\ phase'[p] = "running"
                     \/ sent[p] = 0 /\ sent'[p] = 1]_vars

\* both tracks have ended and the report is null again
C24_Witness ==
  /\ Drained /\ getState.current = NoTrack
  /\ \A p \in 1..FewTracks : phase[p] = "done" /\ sent[p] > 0
  /\ skipTimers = 0 /\ nextTimers = 0 /\ retryTimers = 0


\* C25: a POST /api/queue step whose response is not 201 (400, 422, 503, or
\* 500 after a failed metadata lookup) leaves the queue, the ids issued and
\* the whole engine state as they were.
C25_RejectedPostNoChange ==
  [][\A req \in Requests :
       (postStatus(req) # 201 /\ PostRequest(req))
         => UNCHANGED <<queue, uuids, issued, playing, starting, paused, skipping,
                        pausedAt, totalPausedDuration, stopCurrent, currentFfmpegPid,
                        currentTrack, lastPlayedTrack, taps, phase, started, sent,
                        suspended, timeouts, awaiting, skipTimers, nextTimers,
                        retryTimers>>]_vars


\* a track plays and another waits; every POST answered otherwise than 201 in
\* this state leaves it as it is
C25_Witness ==
  /\ playing /\ currentTrack.startedAt # 0
  /\ Len(queue) = 1 /\ uuids = 2 /\ Len(issued) = 2
  /\ \E req \in Requests : postStatus(req) = 500


\* C26: for a url whose host is youtube.com, youtu.be or music.youtube.com the
\* result keeps the host, has the query without the parameters t, start,
\* time_continue and timestamp, and has no fragment if the fragment began with
\* t= or time_continue=; a url with any other host is returned unchanged.
C26_StripsTimestamps ==
  url.parses =>
    IF url.host \in {<<"youtube", "com">>, <<"youtu", "be">>, <<"music", "youtube", "com">>}
    THEN /\ normalized.host = url.host
         /\ normalized.query =
              SelectSeq(url.query,
                        LAMBDA p : p \notin {"t", "start", "time_continue", "timestamp"})
         /\ normalized.hash =
              (IF url.hash # <<>> /\ url.hash[1] \in {"t=", "time_continue="}
               THEN <<>> ELSE url.hash)
    ELSE normalized = url


\* C27: after a setPaused(b) step the paused flag, and the flag getState
\* reports, equal b, whether or not an encoder runs; a pause records pausedAt
\* and a resume adds the pause to totalPausedDuration and clears pausedAt, also
\* when the signalled process is gone and takes no signal.
C27_PausedFlagFollows ==
  [][\A b \in BOOLEAN :
       setPaused(b)
         => /\ paused' = b /\ getState'.paused = b
            /\ (b /\ ~paused) => (pausedAt' = now /\ UNCHANGED totalPausedDuration)
            /\ (~b /\ paused /\ pausedAt # 0)
                 => /\ totalPausedDuration' = totalPausedDuration + (now - pausedAt)
                    /\ pausedAt' = 0]_vars

\* paused with pausedAt recorded although the signalled process, that of a
\* closed pipeline, took no stop signal
C27_Witness ==
  /\ paused /\ pausedAt # 0
  /\ currentFfmpegPid # 0
  /\ phase[currentFfmpegPid] = "closed" /\ ~suspended[currentFfmpegPid]


\* C28: a listener that is not attached has been written nothing, and the
\* step that attaches it writes it exactly one silence frame, so that frame is
\* the first item it receives, before any audio chunk, silence tick or flush.
C28_FirstFrameSilence ==
  /\ [](\A l \in Listeners \ taps : log[l] = <<>>)
  /\ [][\A l \in Listeners :
          (l \notin taps /\ l \in taps')
            => /\ wrote'[l] = <<SILENCE_FRAME>>
               /\ log'[l] = <<SILENCE_FRAME>>]_vars

\* the second listener has received the attach frame and then an audio chunk
C28_Witness ==
  /\ 2 \in taps /\ ~paused
  /\ \E p \in Ids : log[2] = <<SILENCE_FRAME, Chunk(p, 1)>>

\* C29: the listener count getState reports is the number of attached sinks
\* whose response has not closed: an attach step raises it by one, a close
\* step lowers it by one, no other step changes it, and it is never negative.
C29_ListenerCount ==
  /\ [](getState.listeners = Cardinality(taps) /\ getState.listeners >= 0)
  /\ [][/\ \A l \in Listeners :
             /\ attachClient(l) => getState'.listeners = getState.listeners + 1
             /\ ClientClose(l) => getState'.listeners = getState.listeners - 1
        /\ getState'.listeners # getState.listeners
             => \E l \in Listeners : attachClient(l) \/ ClientClose(l)]_vars

\* two listeners attached, one closed, and attached again
C29_Witness ==
  /\ getState.listeners = 2
  /\ log[1] = <<SILENCE_FRAME>> /\ Len(log[2]) = 2


\* C30: whenever the paused flag is true, every encoder that runs is
\* suspended.
C30_PausedEncoderSuspended ==
  paused => \A p \in Ids : phase[p] = "running" => suspended[p]


\* C31: a setPaused(false) step taken while the paused flag is true finds the
\* time of the pause still recorded, adds the time since then to
\* totalPausedDuration, clears pausedAt and leaves the encoder whose pid is
\* held not suspended.
C31_ResumeAccumulates ==
  [][(paused /\ setPaused(FALSE))
       => /\ pausedAt # 0
          /\ totalPausedDuration' = totalPausedDuration + (now - pausedAt)
          /\ pausedAt' = 0
          /\ \A p \in Ids :
               (p = currentFfmpegPid /\ phase[p] = "running") => ~suspended'[p]]_vars


\* C32: the step in which a track emits its first chunk stamps startedAt with
\* the time of the step and leaves the pause bookkeeping reset
\* (totalPausedDuration = 0, pausedAt = null), so the reported startedAt is that
\* time; no other step changes the startedAt of a track that stays current;
\* and no queued track carries a startedAt.
C32_StampedOnce ==
  /\ [](\A i \in 1..Len(queue) : queue[i].startedAt = 0)
  /\ [][/\ \A p \in Ids :
             (sent[p] = 0 /\ sent'[p] = 1)
               => /\ currentTrack' = [id |-> p, startedAt |-> now]
                  /\ totalPausedDuration' = 0 /\ pausedAt' = 0
                  /\ getState'.current.startedAt = now
        /\ (currentTrack # NoTrack /\ currentTrack'.id = currentTrack.id
              /\ currentTrack'.startedAt # currentTrack.startedAt)
             => /\ currentTrack.startedAt = 0
                /\ sent[currentTrack.id] = 0 /\ sent'[currentTrack.id] = 1]_vars


\* C33: at most one of the two thumbnail caches is non-null; the step that
\* starts track p leaves p's thumbnail (null if p has none) in the cache of p's
\* source and null in the other; and both caches are null when the queue is
\* empty, no track is being fetched or encoded and no playNext is pending.
C33_OneThumbnail ==
  /\ [](currentYoutubeThumbnail = 0 \/ currentSoundcloudThumbnail = 0)
  /\ []((Drained /\ skipTimers = 0 /\ nextTimers = 0 /\ retryTimers = 0)
          => (getCurrentThumbnail("youtube") = 0 /\ getCurrentThumbnail("soundcloud") = 0))
  /\ [][\A p \in Ids :
          (phase[p] = "fetching" /\ phase'[p] = "running")
            => /\ getCurrentThumbnail(payloads[p].source)' = payloads[p].thumbnail
               /\ \A other \in {"youtube", "soundcloud"} \ {payloads[p].source} :
                    getCurrentThumbnail(other)' = 0]_vars

\* a SoundCloud track with a thumbnail has started after a YouTube track with
\* one
C33_Witness ==
  /\ payloads[1] = [source |-> "youtube", thumbnail |-> 1]
  /\ phase[1] = "done" /\ sent[1] > 0
  /\ payloads[2].source = "soundcloud"
  /\ phase[2] = "running"
  /\ currentSoundcloudThumbnail = 2 /\ currentYoutubeThumbnail = 0


\* the tracks of q other than the one with id t, in their order
Others(q, t) == SelectSeq(q, LAMBDA x : x.id # t)

\* C34: an enqueue step appends one track at the tail; a dequeue step removes
\* the head and nothing else; a DELETE step on a queued track shrinks the queue
\* by one and a PATCH step keeps its size, and both leave the other tracks in
\* their relative order.
C34_FifoOrder ==
  [][/\ Enqueue => (Len(queue') = Len(queue) + 1 /\ SubSeq(queue', 1, Len(queue)) = queue)
     /\ Dequeue => (queue = <<peek(queue)>> \o queue')
     /\ \A t \in QueueIds :
          findIndex(queue, t) # -1
            => /\ DeleteQueue(t)
                    => (Len(queue') = Len(queue) - 1 /\ queue' = Others(queue, t))
               /\ \A k \in -1..(QueueTracks + 1) :
                    PatchQueue(t, k)
                      => /\ Len(queue') = Len(queue)
                         /\ findIndex(queue', t) # -1
                         /\ Others(queue', t) = Others(queue, t)]_vars

\* five tracks were enqueued, the head was dequeued and the third removed
C34_Witness ==
  /\ uuids = QueueTracks /\ Len(queue) = 3
  /\ queue[1].id = 2 /\ queue[2].id = 4 /\ queue[3].id = 5


C36_OneDequeuePerEnd ==
  [][(nextTimers' = nextTimers - 1 /\ Len(queue') < Len(queue) /\ ~starting)
       => \A p \in Ids : phase[p] \notin {"fetching", "running"}]_vars


\* C37: the end/error callback of an encoder p that was killed or abandoned
\* (it is the exit of a killed or closed pipeline), arriving while a later
\* track is current, leaves playing, stopCurrent and currentFfmpegPid as they
\* are and schedules no playNext.
C37_LateCallbackInert ==
  [][\A p \in Ids :
       (/\ phase[p] \in {"killed", "closed"} /\ phase'[p] = "done"
        /\ currentTrack # NoTrack /\ currentTrack.id > p)
         => /\ playing' = playing
            /\ stopCurrent' = stopCurrent
            /\ currentFfmpegPid' = currentFfmpegPid
            /\ nextTimers' = nextTimers]_vars


\* C39: whenever playing is true the current track is non-null.
C39_PlayingHasTrack == playing => currentTrack # NoTrack

\* a track plays after the track before it was skipped, which cleared the
\* current track and the playing flag together
C39_Witness ==
  /\ playing
  /\ currentTrack.id = 2
  /\ phase[1] = "killed"
  /\ lastPlayedTrack = currentTrack
  /\ skipTimers = 0 /\ ~skipping

\* C40: pausedAt is non-null exactly when paused is true.
C40_PausedAtIffPaused == (pausedAt # 0) <=> paused


\* no track is being fetched and the playing flag is clear
Idle == ~playing /\ \A p \in Ids : phase[p] # "fetching"

\* C38: a queued track is eventually dequeued and its fetch started, and
\* whenever the queue is non-empty while the engine is idle a playNext is
\* pending (one of the 150 ms, 100 ms and 1 s timers is armed).
C38_QueueDrains ==
  /\ [](queue # <<>> /\ Idle => skipTimers + nextTimers + retryTimers > 0)
  /\ \A t \in Ids : (findIndex(queue, t) # -1) ~> (phase[t] # "none")


\* the first track has played and ended, and the 100 ms timer of its end
\* callback has dequeued the second track, whose fetch is pending
C38_Witness ==
  /\ phase[1] = "done" /\ sent[1] > 0
  /\ phase[2] = "fetching" /\ ~starting
  /\ queue = <<>> /\ nextTimers = 0 /\ skipTimers = 0

=============================================================================
